---- MODULE Spec2Model ----
(***************************************************************************)
(* Model of the Result pattern library (dist/index.js): the classes Ok and *)
(* Fail, their methods map / flatMap / mapFails / flip, and                *)
(* ResultUtils.combine.                                                    *)
(*                                                                         *)
(* Result instances are JavaScript objects with identity, so the model     *)
(* keeps a heap: heap[i] is the i-th instance ever constructed, with its   *)
(* class (the prototype the methods are dispatched on) and its three       *)
(* fields value, isOk, isFail.  A method is an operator from a heap, a     *)
(* receiver and a caller-supplied function to the heap after the call, the *)
(* reference it returns, and the arguments with which it invoked the       *)
(* caller-supplied function.  Two history variables record the calls: made[i] *)
(* is the call that constructed instance i, last is the most recent call.  *)
(***************************************************************************)
EXTENDS Integers, Sequences, FiniteSets, TLC

\* ---- bounds ----
MaxHeap == 3
NumAtoms == 2
MaxArgs == 2
MaxInputs == 3
MaxCombineArgs == 3

VARIABLES heap, made, last
vars == <<heap, made, last>>

\* ---- payloads: an opaque atom, a reference to a Result, or an array ----
Atom(n) == [kind |-> "atom", n |-> n, items |-> <<>>]
Ref(i) == [kind |-> "ref", n |-> i, items |-> <<>>]
List(s) == [kind |-> "list", n |-> 0, items |-> s]
Undefined == [kind |-> "undefined", n |-> 0, items |-> <<>>]

Atoms == {Atom(n) : n \in 0..(NumAtoms - 1)}

\* ---- caller-supplied functions ----
\* A value -> value function is a composition of primitives, applied left to
\* right: <<f, g>> is x => g(f(x)).
Prims == {"inc", "zero"}

ApplyPrim(p, v) ==
  IF p = "inc"
    THEN (IF v.kind = "atom" THEN Atom((v.n + 1) % NumAtoms) ELSE v)
    ELSE Atom(0)

RECURSIVE ApplyPrims(_, _)
ApplyPrims(ps, v) ==
  IF ps = <<>> THEN v ELSE ApplyPrims(Tail(ps), ApplyPrim(Head(ps), v))

Compose(f, g) == f \o g

PrimFns == {<<p>> : p \in Prims}
PrimSeqs == PrimFns \cup {Compose(f, g) : f \in PrimFns, g \in PrimFns}

PureFn(ps) == [kind |-> "pure", prims |-> ps, ref |-> 0]
NoFn == [kind |-> "none", prims |-> <<>>, ref |-> 0]
ApplyFn(f, v) == ApplyPrims(f.prims, v)
PureFns == {PureFn(ps) : ps \in PrimFns}
ComposedFns == {PureFn(ps) : ps \in PrimSeqs}

\* ---- the classes ----
Ok(value) == [cls |-> "Ok", value |-> value, isOk |-> TRUE, isFail |-> FALSE]

\* mutant: the Fail constructor sets isOk as the Ok constructor does
Fail_BothTags(value) ==
  [cls |-> "Fail", value |-> value, isOk |-> TRUE, isFail |-> TRUE]

Fail(value) == [cls |-> "Fail", value |-> value, isOk |-> FALSE, isFail |-> TRUE]

New(h, obj, invoked) ==
  [heap |-> Append(h, obj), ret |-> Len(h) + 1, invoked |-> invoked]

\* A value -> Result function: x => new Ok(x), x => new Fail(x), or x => x
\* (defined where the value is itself a Result).
ResFn(kind) == [kind |-> kind, prims |-> <<>>, ref |-> 0]

ResFns == {ResFn("wrapOk"), ResFn("wrapFail"), ResFn("identity")}

ResFnDefined(f, v) == f.kind = "identity" => v.kind = "ref"

CallResFn(h, f, v) ==
  CASE f.kind = "wrapOk" -> New(h, Ok(v), <<v>>)
    [] f.kind = "wrapFail" -> New(h, Fail(v), <<v>>)
    [] OTHER -> [heap |-> h, ret |-> v.n, invoked |-> <<v>>]

\* mutant: map applies mapFn to its own output
Ok_map_Twice(h, r, mapFn) ==
  New(h, Ok(ApplyFn(mapFn, ApplyFn(mapFn, h[r].value))), <<h[r].value>>)

Ok_map(h, r, mapFn) == New(h, Ok(ApplyFn(mapFn, h[r].value)), <<h[r].value>>)

\* mutant: flatMap wraps what mapFn returned in a new Ok, as map does
Ok_flatMap_Wraps(h, r, mapFn) ==
  LET a == CallResFn(h, mapFn, h[r].value)
  IN  New(a.heap, Ok(Ref(a.ret)), a.invoked)

Ok_flatMap(h, r, mapFn) == CallResFn(h, mapFn, h[r].value)

\* mutant: mapFails on an Ok applies mapFn to the value
Ok_mapFails_Applies(h, r, mapFn) ==
  New(h, Ok(ApplyFn(mapFn, h[r].value)), <<h[r].value>>)

Ok_mapFails(h, r, mapFn) == New(h, Ok(h[r].value), <<>>)

Ok_flip(h, r) == New(h, Fail(h[r].value), <<>>)

\* mutant: map on a Fail applies mapFn to the error
Fail_map_Applies(h, r, mapFn) ==
  New(h, Fail(ApplyFn(mapFn, h[r].value)), <<h[r].value>>)

\* mutant: map on a Fail returns the receiver
Fail_map_ReturnsThis(h, r, mapFn) == [heap |-> h, ret |-> r, invoked |-> <<>>]

Fail_map(h, r, mapFn) == New(h, Fail(h[r].value), <<>>)

Fail_flatMap(h, r, mapFn) == New(h, Fail(h[r].value), <<>>)

\* mutant: mapFails on a Fail overwrites the receiver's value and returns it
Fail_mapFails_InPlace(h, r, mapFn) ==
  [heap |-> [h EXCEPT ![r].value = ApplyFn(mapFn, @)], ret |-> r,
   invoked |-> <<h[r].value>>]

Fail_mapFails(h, r, mapFn) ==
  New(h, Fail(ApplyFn(mapFn, h[r].value)), <<h[r].value>>)

\* mutant: flip on a Fail keeps the variant
Fail_flip_KeepsTag(h, r) == New(h, Fail(h[r].value), <<>>)

Fail_flip(h, r) == New(h, Ok(h[r].value), <<>>)

\* method dispatch on the receiver's class
map(h, r, f) == IF h[r].cls = "Ok" THEN Ok_map(h, r, f) ELSE Fail_map(h, r, f)

flatMap(h, r, f) ==
  IF h[r].cls = "Ok" THEN Ok_flatMap(h, r, f) ELSE Fail_flatMap(h, r, f)

mapFails(h, r, f) ==
  IF h[r].cls = "Ok" THEN Ok_mapFails(h, r, f) ELSE Fail_mapFails(h, r, f)

flip(h, r) == IF h[r].cls = "Ok" THEN Ok_flip(h, r) ELSE Fail_flip(h, r)

\* ---- ResultUtils.combine ----
Filter(h, results) == SelectSeq(results, LAMBDA r : h[r].isFail)

Values(h, rs) == [i \in 1..Len(rs) |-> h[rs[i]].value]

\* mutant: combine stops at the first failure
combine_FirstFailOnly(h, results) ==
  LET fails == Filter(h, results)
  IN  IF Len(fails) > 0
        THEN New(h, Fail(List(<<h[fails[1]].value>>)), <<>>)
        ELSE New(h, Ok(List(Values(h, results))), <<>>)

\* mutant: the test on fails.length also holds of an empty list
combine_EmptyIsFail(h, results) ==
  LET fails == Filter(h, results)
  IN  IF Len(fails) >= 0
        THEN New(h, Fail(List(Values(h, fails))), <<>>)
        ELSE New(h, Ok(List(Values(h, results))), <<>>)

combine(h, results) ==
  LET fails == Filter(h, results)
  IN  IF Len(fails) > 0
        THEN New(h, Fail(List(Values(h, fails))), <<>>)
        ELSE New(h, Ok(List(Values(h, results))), <<>>)

\* ---- the state machine ----
Call(op, recv, fn, args, res) ==
  [op |-> op, recv |-> recv, fn |-> fn, args |-> args, pre |-> Len(heap),
   ret |-> res.ret, invoked |-> res.invoked, thrown |-> "none",
   returned |-> Undefined]

Do(bound, op, recv, fn, args, res) ==
  /\ Len(res.heap) <= bound
  /\ heap' = res.heap
  /\ made' = IF Len(res.heap) > Len(heap)
               THEN Append(made, Call(op, recv, fn, args, res))
               ELSE made
  /\ last' = Call(op, recv, fn, args, res)

Constructed(i) ==
  [op |-> "new", recv |-> 0, fn |-> NoFn, args |-> <<>>, pre |-> i - 1,
   ret |-> i, invoked |-> <<>>, thrown |-> "none", returned |-> Undefined]

NoCall ==
  [op |-> "none", recv |-> 0, fn |-> NoFn, args |-> <<>>, pre |-> 0,
   ret |-> 0, invoked |-> <<>>, thrown |-> "none", returned |-> Undefined]

Init ==
  /\ heap = <<>>
  /\ made = <<>>
  /\ last = NoCall

Payloads == Atoms \cup {Ref(i) : i \in DOMAIN heap}

NewOk ==
  /\ Len(heap) < MaxHeap
  /\ \E v \in Payloads :
       Do(MaxHeap, "new", 0, NoFn, <<>>, New(heap, Ok(v), <<>>))

NewFail ==
  /\ Len(heap) < MaxHeap
  /\ \E v \in Payloads :
       Do(MaxHeap, "new", 0, NoFn, <<>>, New(heap, Fail(v), <<>>))

Map ==
  /\ Len(heap) < MaxHeap
  /\ \E r \in DOMAIN heap, f \in PureFns :
       Do(MaxHeap, "map", r, f, <<>>, map(heap, r, f))

FlatMap ==
  \E r \in DOMAIN heap, f \in ResFns :
    /\ heap[r].cls = "Ok" => ResFnDefined(f, heap[r].value)
    /\ Do(MaxHeap, "flatMap", r, f, <<>>, flatMap(heap, r, f))

MapFails ==
  /\ Len(heap) < MaxHeap
  /\ \E r \in DOMAIN heap, f \in PureFns :
       Do(MaxHeap, "mapFails", r, f, <<>>, mapFails(heap, r, f))

Flip ==
  /\ Len(heap) < MaxHeap
  /\ \E r \in DOMAIN heap : Do(MaxHeap, "flip", r, NoFn, <<>>, flip(heap, r))

ArgLists(maxLen) == UNION {[1..k -> DOMAIN heap] : k \in 0..maxLen}

Combine ==
  /\ Len(heap) < MaxHeap
  /\ \E results \in ArgLists(MaxArgs) :
       Do(MaxHeap, "combine", 0, NoFn, results, combine(heap, results))

Next == NewOk \/ NewFail \/ Map \/ FlatMap \/ MapFails \/ Flip \/ Combine

Spec == Init /\ [][Next]_vars

\* ---- ResultUtils.combine as a pure function of its inputs ----
\* The inputs are drawn at the start; the one action applies combine to a
\* sequence of them, once.
InputResults == {Ok(v) : v \in Atoms} \cup {Fail(v) : v \in Atoms}

InitCombine ==
  /\ heap \in UNION {[1..n -> InputResults] : n \in 0..MaxInputs}
  /\ made = [i \in DOMAIN heap |-> Constructed(i)]
  /\ last = NoCall

CombineInputs ==
  /\ last.op = "none"
  /\ \E results \in ArgLists(MaxCombineArgs) :
       Do(MaxInputs + 1, "combine", 0, NoFn, results, combine(heap, results))

NextCombine == CombineInputs

SpecCombine == InitCombine /\ [][NextCombine]_vars

\* ---- chains of map over an Ok, with composed functions ----
InitMap ==
  /\ heap \in {<<Ok(v)>> : v \in Atoms}
  /\ made = <<Constructed(1)>>
  /\ last = NoCall

MapStep ==
  /\ Len(heap) < MaxHeap + 1
  /\ \E r \in DOMAIN heap, f \in ComposedFns :
       Do(MaxHeap + 1, "map", r, f, <<>>, map(heap, r, f))

NextMap == MapStep

SpecMap == InitMap /\ [][NextMap]_vars

\* ---- calls of members the classes do not define ----
\* The members of each class are the constructor's fields and the four
\* methods of its body.  Looking up any other name on an instance yields
\* undefined, and calling undefined throws a TypeError before anything else
\* happens: no instance is constructed, nothing is returned.
OkMembers == {"value", "isOk", "isFail", "map", "flatMap", "mapFails", "flip"}

FailMembers == {"value", "isOk", "isFail", "map", "flatMap", "mapFails", "flip"}

Members(obj) == IF obj.cls = "Ok" THEN OkMembers ELSE FailMembers

CallMember(name, r, args) ==
  /\ name \notin Members(heap[r])
  /\ last' = [op |-> name, recv |-> r, fn |-> NoFn, args |-> args,
              pre |-> Len(heap), ret |-> 0, invoked |-> <<>>,
              thrown |-> "TypeError", returned |-> Undefined]
  /\ UNCHANGED <<heap, made>>

Unwrap == \E r \in DOMAIN heap : CallMember("unwrap", r, <<>>)

And == \E r \in DOMAIN heap, other \in DOMAIN heap : CallMember("and", r, <<other>>)

Or == \E r \in DOMAIN heap, other \in DOMAIN heap : CallMember("or", r, <<other>>)

NextMembers == Unwrap \/ And \/ Or

SpecMembers == InitCombine /\ [][NextMembers]_vars

\* ---- properties ----
Calls == {made[i] : i \in DOMAIN made} \cup {last}

Transformations == {"map", "flatMap", "mapFails", "flip"}

SameResult(i, j) ==
  /\ heap[i].cls = heap[j].cls
  /\ heap[i].isOk = heap[j].isOk
  /\ heap[i].isFail = heap[j].isFail
  /\ heap[i].value = heap[j].value

IsOkOf(i, v) == heap[i].cls = "Ok" /\ heap[i].isOk /\ ~heap[i].isFail /\ heap[i].value = v

IsFailOf(i, v) ==
  heap[i].cls = "Fail" /\ heap[i].isFail /\ ~heap[i].isOk /\ heap[i].value = v

\* the payloads of the Fail instances among args, in the order of args
RECURSIVE FailPayloads(_)
FailPayloads(args) ==
  IF args = <<>> THEN <<>>
  ELSE IF heap[Head(args)].cls = "Fail"
    THEN <<heap[Head(args)].value>> \o FailPayloads(Tail(args))
    ELSE FailPayloads(Tail(args))

RECURSIVE AllPayloads(_)
AllPayloads(args) ==
  IF args = <<>> THEN <<>>
  ELSE <<heap[Head(args)].value>> \o AllPayloads(Tail(args))

NumFails(args) == Cardinality({k \in DOMAIN args : heap[args[k]].cls = "Fail"})

\* C1: combine of a sequence holding at least one Fail returns a Fail whose
\* payload is the list of the payloads of exactly the Fail inputs, in input
\* order: as many entries as there are Fail inputs, and no Ok payload.
C1_CombineCollectsAllFails ==
  \A c \in Calls :
    (c.op = "combine" /\ \E k \in DOMAIN c.args : heap[c.args[k]].cls = "Fail")
      => /\ IsFailOf(c.ret, List(FailPayloads(c.args)))
         /\ Len(heap[c.ret].value.items) = NumFails(c.args)
         /\ \A k \in DOMAIN c.args :
              heap[c.args[k]].cls = "Fail" =>
                \E m \in DOMAIN heap[c.ret].value.items :
                  heap[c.ret].value.items[m] = heap[c.args[k]].value

C1_Witness ==
  /\ last.op = "combine"
  /\ Len(last.args) = 3
  /\ heap[last.args[1]].cls = "Fail"
  /\ heap[last.args[2]].cls = "Ok"
  /\ heap[last.args[3]].cls = "Fail"
  /\ heap[last.args[1]].value # heap[last.args[3]].value
  /\ heap[last.args[2]].value # heap[last.args[3]].value
  /\ heap[last.ret].value.items =
       <<heap[last.args[1]].value, heap[last.args[3]].value>>

\* C2: combine of a sequence holding no Fail, the empty sequence included,
\* returns an Ok whose payload is the list of all input payloads in input
\* order; combine() returns Ok([]).
C2_CombineAllOk ==
  \A c \in Calls :
    (c.op = "combine" /\ \A k \in DOMAIN c.args : heap[c.args[k]].cls # "Fail")
      => /\ IsOkOf(c.ret, List(AllPayloads(c.args)))
         /\ Len(heap[c.ret].value.items) = Len(c.args)
         /\ c.args = <<>> => IsOkOf(c.ret, List(<<>>))

C2_Witness ==
  /\ last.op = "combine"
  /\ Len(last.args) = 3
  /\ \A k \in 1..3 : heap[last.args[k]].cls = "Ok"
  /\ heap[last.args[1]].value # heap[last.args[2]].value
  /\ heap[last.args[3]].value = heap[last.args[1]].value
  /\ heap[last.ret].cls = "Ok"
  /\ heap[last.ret].value.items =
       <<heap[last.args[1]].value, heap[last.args[2]].value,
         heap[last.args[3]].value>>

\* the first failure of the chain of map / flatMap steps that made instance i
RECURSIVE FirstFail(_)
FirstFail(i) ==
  IF made[i].op \in {"map", "flatMap"} /\ heap[made[i].recv].cls = "Fail"
    THEN FirstFail(made[i].recv)
    ELSE i

\* C3: in a chain of map and flatMap steps, once the current result is
\* Fail(e), every later step returns a Fail carrying e and invokes its
\* function zero times, so the final result carries the first failure's error.
C3_FailShortCircuits ==
  /\ \A c \in Calls :
       (c.op \in {"map", "flatMap"} /\ heap[c.recv].cls = "Fail")
         => IsFailOf(c.ret, heap[c.recv].value) /\ c.invoked = <<>>
  /\ \A i \in DOMAIN heap :
       FirstFail(i) # i => IsFailOf(i, heap[FirstFail(i)].value)

C3_Witness ==
  /\ Len(heap) = 3
  /\ made[1].op = "new" /\ heap[1].cls = "Fail"
  /\ made[2].op = "flatMap" /\ made[2].recv = 1 /\ made[2].fn.kind = "wrapOk"
  /\ made[3].op = "map" /\ made[3].recv = 2 /\ made[3].fn.prims = <<"inc">>
  /\ heap[1].value = Atom(0)
  /\ FirstFail(3) = 1
  /\ heap[3].value = Atom(0)

\* C4: Ok(v).flatMap(f) invokes f exactly once, with v, and returns exactly
\* f(v), with no additional wrapping: the instance f constructed, or for the
\* identity function the inner Result itself.
C4_OkFlatMapIsBind ==
  \A c \in Calls :
    (c.op = "flatMap" /\ heap[c.recv].cls = "Ok")
      => /\ c.invoked = <<heap[c.recv].value>>
         /\ c.fn.kind = "wrapOk" => IsOkOf(c.ret, heap[c.recv].value)
         /\ c.fn.kind = "wrapFail" => IsFailOf(c.ret, heap[c.recv].value)
         /\ c.fn.kind = "identity" => c.ret = heap[c.recv].value.n

C4_Witness ==
  /\ last.op = "flatMap"
  /\ last.fn.kind = "identity"
  /\ heap[last.recv].cls = "Ok"
  /\ heap[last.recv].value.kind = "ref"
  /\ heap[heap[last.recv].value.n].cls = "Fail"
  /\ heap[last.ret].cls = "Fail"
  /\ heap[last.ret].value.kind = "atom"
  /\ Len(last.invoked) = 1

\* C5: every Result constructed as Ok or Fail, or returned by map, flatMap,
\* mapFails, flip or combine, has exactly one of isOk / isFail true.
C5_TagsComplementary ==
  \A i \in DOMAIN heap :
    /\ heap[i].isOk \in BOOLEAN
    /\ heap[i].isFail \in BOOLEAN
    /\ heap[i].isOk = ~heap[i].isFail

C5_Witness ==
  /\ Len(heap) = 3
  /\ made[2].op = "flip"
  /\ made[3].op = "combine"
  /\ heap[3].isFail
  /\ heap[2].isFail
  /\ heap[1].isOk

\* C6: a single flip turns Ok(v) into Fail(v) and Fail(e) into Ok(e), and
\* r.flip().flip() has the same tag and the same payload as r.
C6_FlipInvolution ==
  \A i \in DOMAIN heap :
    made[i].op = "flip" =>
      /\ heap[made[i].recv].cls = "Ok" => IsFailOf(i, heap[made[i].recv].value)
      /\ heap[made[i].recv].cls = "Fail" => IsOkOf(i, heap[made[i].recv].value)
      /\ made[made[i].recv].op = "flip" => SameResult(i, made[made[i].recv].recv)

C6_Witness ==
  /\ Len(heap) = 3
  /\ heap[1].cls = "Fail"
  /\ made[2].op = "flip" /\ made[2].recv = 1
  /\ made[3].op = "flip" /\ made[3].recv = 2
  /\ heap[2].cls = "Ok"
  /\ heap[3].cls = "Fail"

\* C7: Fail(e).mapFails(f) is a Fail with payload f(e) and f is invoked
\* exactly once; Ok(v).mapFails(f) is an Ok with payload v and f is not
\* invoked.
C7_MapFailsDual ==
  \A c \in Calls :
    c.op = "mapFails" =>
      /\ heap[c.recv].cls = "Fail" =>
           /\ IsFailOf(c.ret, ApplyFn(c.fn, heap[c.recv].value))
           /\ c.invoked = <<heap[c.recv].value>>
      /\ heap[c.recv].cls = "Ok" =>
           /\ IsOkOf(c.ret, heap[c.recv].value)
           /\ c.invoked = <<>>

C7_Witness ==
  /\ last.op = "mapFails"
  /\ last.fn.prims = <<"inc">>
  /\ heap[last.recv] = Fail(Atom(0))
  /\ heap[last.ret] = Fail(Atom(1))
  /\ last.invoked = <<Atom(0)>>

\* C8: Ok(v).map(f).map(g) has the same tag and payload as
\* Ok(v).map(x => g(f(x))), namely Ok(g(f(v))).
C8_FunctorLaw ==
  \A a \in DOMAIN heap, b \in DOMAIN heap, c \in DOMAIN heap :
    (/\ heap[a].cls = "Ok"
     /\ made[b].op = "map" /\ made[b].recv = a
     /\ made[c].op = "map" /\ made[c].recv = b)
      => /\ IsOkOf(c, ApplyFn(made[c].fn, ApplyFn(made[b].fn, heap[a].value)))
         /\ \A d \in DOMAIN heap :
              (/\ made[d].op = "map" /\ made[d].recv = a
               /\ made[d].fn.prims = Compose(made[b].fn.prims, made[c].fn.prims))
                => SameResult(c, d)

C8_Witness ==
  /\ Len(heap) = 4
  /\ heap[1] = Ok(Atom(0))
  /\ made[2].op = "map" /\ made[2].recv = 1 /\ made[2].fn.prims = <<"zero">>
  /\ made[3].op = "map" /\ made[3].recv = 2 /\ made[3].fn.prims = <<"inc">>
  /\ made[4].op = "map" /\ made[4].recv = 1
  /\ made[4].fn.prims = <<"zero", "inc">>
  /\ heap[3] = Ok(Atom(1))
  /\ heap[4] = Ok(Atom(1))

\* C9: no call of map, flatMap, mapFails, flip or combine changes the tag
\* or the payload of an instance that existed before the call.
C9_NoMutation ==
  [][\A i \in DOMAIN heap : i \in DOMAIN heap' /\ heap'[i] = heap[i]]_vars

C9_Witness ==
  /\ last.op = "mapFails"
  /\ heap[last.recv] = Fail(Atom(0))
  /\ heap[last.ret] = Fail(Atom(1))
  /\ last.ret # last.recv
  /\ Len(heap) = 3
  /\ made[2].op = "combine" /\ made[2].args = <<1, 1>>
  /\ heap[2] = Fail(List(<<Atom(0), Atom(0)>>))

\* C10 as stated: every transformation returns an instance constructed
\* during the call, never the receiver nor an instance that existed before.
C10_AlwaysFresh ==
  \A c \in Calls :
    c.op \in Transformations => (c.ret > c.pre /\ c.ret # c.recv)

\* C10 amended: map, mapFails and flip on either variant, and flatMap on a
\* Fail, return an instance constructed during the call; flatMap on an Ok
\* returns the instance its function returned, which is new only if the
\* function constructed it.
C10_FreshExceptOkFlatMap ==
  \A c \in Calls :
    /\ (c.op \in {"map", "mapFails", "flip"}
          \/ (c.op = "flatMap" /\ heap[c.recv].cls = "Fail"))
         => (c.ret > c.pre /\ c.ret # c.recv)
    /\ (c.op = "flatMap" /\ heap[c.recv].cls = "Ok")
         => (c.ret > c.pre <=> c.fn.kind # "identity")

C10_Witness ==
  /\ last.op = "flatMap"
  /\ last.fn.kind = "identity"
  /\ heap[last.recv].cls = "Ok"
  /\ last.ret <= last.pre
  /\ Len(heap) = 3
  /\ made[3].op = "flatMap" /\ heap[made[3].recv].cls = "Fail"
  /\ made[3].pre = 2

\* C11: unwrap on a Fail raises, and unwrap on Ok(v) returns v and never
\* raises.
C11_UnwrapReturnsOkValue ==
  \A c \in Calls :
    c.op = "unwrap" =>
      /\ heap[c.recv].cls = "Fail" => c.thrown # "none"
      /\ heap[c.recv].cls = "Ok" =>
           (c.thrown = "none" /\ c.returned = heap[c.recv].value)

\* C12: Ok(v).and(other) returns other and Fail(e).and(other) returns a Fail
\* carrying e; Ok(v).or(other) returns Ok(v) and Fail(e).or(other) returns
\* other.
C12_AndOrSelectByTag ==
  \A c \in Calls :
    /\ c.op = "and" =>
         /\ c.thrown = "none"
         /\ heap[c.recv].cls = "Ok" => c.ret = c.args[1]
         /\ heap[c.recv].cls = "Fail" => IsFailOf(c.ret, heap[c.recv].value)
    /\ c.op = "or" =>
         /\ c.thrown = "none"
         /\ heap[c.recv].cls = "Ok" => IsOkOf(c.ret, heap[c.recv].value)
         /\ heap[c.recv].cls = "Fail" => c.ret = c.args[1]

====
